---- MODULE Spec2Model ----
(***************************************************************************)
(* Model of openevolve_eval.py: the evaluator that stages a candidate BPF  *)
(* policy, rebuilds the policies, runs eval/filesearch/run.sh while two    *)
(* threads drain its output, and reduces the results file to a score.      *)
(*                                                                         *)
(* Text that the code inspects character by character (the candidate path, *)
(* a runtime given as a string) is a sequence of one-character strings;    *)
(* text that it only stores (messages, captured output) is a string.       *)
(* A float is the exact rational it denotes, [num, den] in lowest terms.   *)
(***************************************************************************)
EXTENDS Integers, Sequences, FiniteSets, TLC

\* ------------------------------------------------------------------ bounds
\* Lines the benchmark writes to each of its two output streams.
MaxLines == 1
\* Records in a results file of the aggregation specification.
MaxRecords == 2
\* Seconds of wall-clock time that pass between evaluations.
MaxClock == 1

\* ------------------------------------------------------------ text helpers
RECURSIVE StrOf(_)
\* The string spelled by a sequence of characters.
StrOf(s) == IF s = <<>> THEN "" ELSE Head(s) \o StrOf(Tail(s))

Whitespace == {" ", "\t", "\n"}

RECURSIVE LStrip(_)
LStrip(s) == IF s # <<>> /\ Head(s) \in Whitespace THEN LStrip(Tail(s)) ELSE s

RECURSIVE RStrip(_)
RStrip(s) ==
    IF s # <<>> /\ s[Len(s)] \in Whitespace THEN RStrip(SubSeq(s, 1, Len(s) - 1)) ELSE s

\* str.strip()
Strip(s) == RStrip(LStrip(s))

\* str.rfind(c), 1-based; 0 when c does not occur.
RFind(s, c) ==
    LET hits == {i \in 1..Len(s) : s[i] = c}
    IN  IF hits = {} THEN 0 ELSE CHOOSE i \in hits : \A j \in hits : j <= i

\* ----------------------------------------------------------- configuration
HOME == <<"/", "h">>
REPO_ROOT == HOME \o <<"/", "r">>
\* The fixed destination of the active policy source.
POLICY_DEST == REPO_ROOT \o <<"/", "p", ".", "c">>
POLICY_DEST_STR == StrOf(POLICY_DEST)
BUILD_SCRIPT_STR == StrOf(REPO_ROOT) \o "/build_policies.sh"
RUN_SCRIPT_STR == StrOf(REPO_ROOT) \o "/eval/filesearch/run.sh"
CGROUP_NAME == <<"c", "a", "c", "h", "e", "_", "e", "x", "t", "_", "t", "e", "s", "t">>

\* ------------------------------------------------------------- JSON values
Null == [t |-> "null"]
Num(n) == [t |-> "num", n |-> n]
\* An integer literal too large for a float (json.load yields a Python int).
BigInt == [t |-> "bigint"]
Bool(b) == [t |-> "bool", b |-> b]
Str(s) == [t |-> "str", s |-> s]
List(items) == [t |-> "list", items |-> items]
Obj(fields) == [t |-> "obj", f |-> fields]
NoFields == [k \in {} |-> Null]

\* dict.get(key, default)
Get(o, key, default) == IF key \in DOMAIN o.f THEN o.f[key] ELSE default
\* dict.get(key): None when the key is absent; None and JSON null coincide.
GetOrNone(o, key) == Get(o, key, Null)

\* ------------------------------------------------------------------ floats
Abs(i) == IF i < 0 THEN -i ELSE i

RECURSIVE Gcd(_, _)
Gcd(a, b) == IF b = 0 THEN a ELSE Gcd(b, a % b)

Fin(n, d) ==
    LET g == Gcd(Abs(n), d) IN [k |-> "fin", num |-> n \div g, den |-> d \div g]
NegInf == [k |-> "-inf"]
Zero == Fin(0, 1)
Neg(x) == IF x.k = "fin" THEN Fin(-x.num, x.den) ELSE x

RECURSIVE Sum(_)
Sum(s) == IF s = <<>> THEN 0 ELSE Head(s) + Sum(Tail(s))

\* statistics.mean of a non-empty list of floats (exact).
mean(rs) == Fin(Sum(rs), Len(rs))

Digits == {"0", "1", "2", "3", "4", "5", "6", "7", "8", "9"}
DigitVal(c) ==
    CASE c = "0" -> 0 [] c = "1" -> 1 [] c = "2" -> 2 [] c = "3" -> 3 [] c = "4" -> 4
      [] c = "5" -> 5 [] c = "6" -> 6 [] c = "7" -> 7 [] c = "8" -> 8 [] c = "9" -> 9

RECURSIVE DecVal(_)
DecVal(s) == IF s = <<>> THEN 0 ELSE DecVal(SubSeq(s, 1, Len(s) - 1)) * 10 + DigitVal(s[Len(s)])

\* float(x) for a value read from JSON: [exc, v].  exc is "" on success.
\* A string is stripped and must then be an unsigned decimal integer (the
\* strings of this model are digits, blanks and letters only).
float(x) ==
    CASE x.t = "null" -> [exc |-> "TypeError", v |-> 0]
      [] x.t = "num" -> [exc |-> "", v |-> x.n]
      [] x.t = "bigint" -> [exc |-> "OverflowError", v |-> 0]
      [] x.t = "bool" -> [exc |-> "", v |-> IF x.b THEN 1 ELSE 0]
      [] x.t = "str" ->
            LET s == Strip(x.s)
            IN  IF s # <<>> /\ \A i \in 1..Len(s) : s[i] \in Digits
                THEN [exc |-> "", v |-> DecVal(s)]
                ELSE [exc |-> "ValueError", v |-> 0]
      [] OTHER -> [exc |-> "TypeError", v |-> 0]

\* ------------------------------------------------------------ results file
\* What RESULTS_DIR / results_filename holds.
Missing == [k |-> "missing"]
\* Present, but open() fails with OSError (a directory, no read permission).
Unreadable == [k |-> "unreadable"]
\* Present, text that is not JSON.
BadJson == [k |-> "badjson"]
\* Present, bytes that are not UTF-8.
BadUtf8 == [k |-> "badutf8"]
Json(v) == [k |-> "json", v |-> v]

\* Python's == between a JSON value and a str.
EqStr(x, s) == x.t = "str" /\ x.s = s

RECURSIVE LoadLoopNoFilter(_, _)
\* LoadLoop without the cgroup_name test of line 100.
LoadLoopNoFilter(items, runtimes) ==
    IF items = <<>> THEN [exc |-> "", runtimes |-> runtimes]
    ELSE LET entry == Head(items)
             rest == Tail(items)
         IN  IF entry.t # "obj" THEN [exc |-> "AttributeError", runtimes |-> runtimes]
             ELSE LET config == Get(entry, "config", Obj(NoFields))
                      results == Get(entry, "results", Obj(NoFields))
                  IN  IF config.t # "obj" \/ results.t # "obj"
                      THEN [exc |-> "AttributeError", runtimes |-> runtimes]
                      ELSE LET r == float(GetOrNone(results, "runtime_sec"))
                           IN  IF r.exc = ""
                               THEN LoadLoopNoFilter(rest, Append(runtimes, r.v))
                               ELSE IF r.exc \in {"TypeError", "ValueError"}
                               THEN LoadLoopNoFilter(rest, runtimes)
                               ELSE [exc |-> r.exc, runtimes |-> runtimes]

RECURSIVE LoadLoop(_, _)
\* The for loop of _load_cache_ext_runtimes over the remaining entries:
\* [exc, runtimes], exc naming the exception that escapes ("" if none).
LoadLoop(items, runtimes) ==
    IF items = <<>> THEN [exc |-> "", runtimes |-> runtimes]
    ELSE LET entry == Head(items)
             rest == Tail(items)
         IN  IF entry.t # "obj" THEN [exc |-> "AttributeError", runtimes |-> runtimes]
             ELSE LET config == Get(entry, "config", Obj(NoFields))
                  IN  IF config.t # "obj"
                      THEN [exc |-> "AttributeError", runtimes |-> runtimes]
                      ELSE IF ~EqStr(GetOrNone(config, "cgroup_name"), CGROUP_NAME)
                      THEN LoadLoop(rest, runtimes)
                      ELSE LET results == Get(entry, "results", Obj(NoFields))
                           IN  IF results.t # "obj"
                               THEN [exc |-> "AttributeError", runtimes |-> runtimes]
                               ELSE LET r == float(GetOrNone(results, "runtime_sec"))
                                    IN  IF r.exc = ""
                                        THEN LoadLoop(rest, Append(runtimes, r.v))
                                        ELSE IF r.exc \in {"TypeError", "ValueError"}
                                        THEN LoadLoop(rest, runtimes)
                                        ELSE [exc |-> r.exc, runtimes |-> runtimes]

\* _load_cache_ext_runtimes(path), given what the path holds.
LoadCacheExtRuntimes(file) ==
    CASE file.k = "missing" -> [exc |-> "", runtimes |-> <<>>]
      [] file.k = "unreadable" -> [exc |-> "", runtimes |-> <<>>]
      [] file.k = "badjson" -> [exc |-> "", runtimes |-> <<>>]
      [] file.k = "badutf8" -> [exc |-> "UnicodeDecodeError", runtimes |-> <<>>]
      [] file.k = "json" ->
            LoadLoop(IF file.v.t = "list" THEN file.v.items ELSE <<>>, <<>>)

\* The metrics evaluate builds from the runtimes (lines 173-177, 197-208).
InitialMetrics ==
    [cache_ext_avg_runtime_sec |-> Zero, cache_ext_run_count |-> Zero, combined_score |-> Zero]

\* Aggregate without the sentinel of line 208.
AggregateNoSentinel(runtimes) ==
    IF runtimes # <<>>
    THEN [cache_ext_avg_runtime_sec |-> mean(runtimes),
          cache_ext_run_count |-> Fin(Len(runtimes), 1),
          combined_score |-> Neg(mean(runtimes))]
    ELSE InitialMetrics

Aggregate(runtimes) ==
    IF runtimes # <<>>
    THEN [cache_ext_avg_runtime_sec |-> mean(runtimes),
          cache_ext_run_count |-> Fin(Len(runtimes), 1),
          combined_score |-> Neg(mean(runtimes))]
    ELSE [InitialMetrics EXCEPT !.combined_score = NegInf]

\* ------------------------------------------------- results files considered
Other == <<"o", "t", "h", "e", "r">>
Config(cg) == Obj([cgroup_name |-> cg])
Results(rt) == Obj([runtime_sec |-> rt])
Record(cg, rt) == Obj([config |-> Config(Str(cg)), results |-> Results(rt)])

\* The elements a results list is built from.
Entries ==
    { Num(7),
      Obj([config |-> Str(<<"x">>)]),
      Obj(NoFields),
      Record(Other, Num(9)),
      Obj([config |-> Config(Str(Other)), results |-> Str(<<"x">>)]),
      Obj([config |-> Obj(NoFields), results |-> Results(Num(9))]),
      Record(CGROUP_NAME, Num(2)),
      Record(CGROUP_NAME, Num(4)),
      Record(CGROUP_NAME, Num(0)),
      Record(CGROUP_NAME, Str(<<"5">>)),
      Record(CGROUP_NAME, Str(<<" ", "1", "0">>)),
      Record(CGROUP_NAME, Str(<<"x">>)),
      Record(CGROUP_NAME, Null),
      Record(CGROUP_NAME, Bool(TRUE)),
      Record(CGROUP_NAME, List(<<>>)),
      Record(CGROUP_NAME, BigInt),
      Obj([config |-> Config(Str(CGROUP_NAME))]),
      Obj([config |-> Config(Str(CGROUP_NAME)), results |-> Obj(NoFields)]),
      Obj([config |-> Config(Str(CGROUP_NAME)), results |-> Null]) }

SeqsUpTo(S, n) == UNION {[1..m -> S] : m \in 0..n}

\* The example of the specification: two measured runs and one foreign run.
ExampleFile ==
    Json(List(<<Record(CGROUP_NAME, Num(2)), Record(Other, Num(9)), Record(CGROUP_NAME, Num(4))>>))

\* Files of the aggregation specification.
Files ==
    {Missing, Unreadable, BadJson, BadUtf8, Json(Obj(NoFields)), Json(Num(3)), ExampleFile}
        \cup {Json(List(items)) : items \in SeqsUpTo(Entries, MaxRecords)}

\* Files the benchmark may leave behind in the evaluation specification.
BenchFiles ==
    { Unreadable, BadJson, BadUtf8, Json(Obj(NoFields)), Json(List(<<>>)), ExampleFile,
      Json(List(<<Record(Other, Num(9)), Record(CGROUP_NAME, Str(<<"x">>))>>)),
      Json(List(<<Record(CGROUP_NAME, Num(2)), Record(CGROUP_NAME, Str(<<"x">>)),
                  Record(CGROUP_NAME, Num(5))>>)),
      Json(List(<<Record(CGROUP_NAME, Num(2)), Num(7)>>)),
      Json(List(<<Obj([config |-> Config(Str(CGROUP_NAME)), results |-> Null]),
                  Record(CGROUP_NAME, Num(4))>>)) }

\* -------------------------------------------------------------- filesystem
\* Candidate paths are single names (a name stands for its absolute path) or
\* the absolute destination.  What lies at each path is fixed, except for the
\* destination, whose content is state: "absent", or the text it holds.
A_C == <<"a", ".", "c">>
B_TXT == <<"b", ".", "t", "x", "t">>
DOT_C == <<".", "c">>
M_C == <<"m", ".", "c">>
D_C == <<"d", ".", "c">>
L_C == <<"l", ".", "c">>

NodeAt(path, dest) ==
    CASE path = A_C -> [kind |-> "file", content |-> "A"]
      [] path = B_TXT -> [kind |-> "file", content |-> "B"]
      [] path = DOT_C -> [kind |-> "file", content |-> "H"]
      [] path = D_C -> [kind |-> "dir"]
      [] path = HOME -> [kind |-> "dir"]
      [] path = L_C -> [kind |-> "symlink", to |-> POLICY_DEST]
      [] path = POLICY_DEST ->
            IF dest = "absent" THEN [kind |-> "missing"] ELSE [kind |-> "file", content |-> dest]
      [] OTHER -> [kind |-> "missing"]

\* Path.resolve(): symbolic links followed.
Resolve(path) == IF NodeAt(path, "absent").kind = "symlink" THEN NodeAt(path, "absent").to ELSE path
\* Path.exists() and Path.is_file() follow symbolic links.
Exists(path, dest) == NodeAt(Resolve(path), dest).kind # "missing"
IsFile(path, dest) == NodeAt(Resolve(path), dest).kind = "file"

\* Path.expanduser(): [exc, path].  "~" and "~/..." name the home directory;
\* "~name" names the home of a user, and no other user exists.
ExpandUser(path) ==
    IF path # <<>> /\ Head(path) = "~"
    THEN IF Len(path) = 1 \/ path[2] = "/"
         THEN [exc |-> "", path |-> HOME \o Tail(path)]
         ELSE [exc |-> "RuntimeError", path |-> path]
    ELSE [exc |-> "", path |-> path]

\* Path.name: the final component.
Name(path) == SubSeq(path, RFind(path, "/") + 1, Len(path))

\* Path.suffix: from the last dot of the name, unless that dot is the name's
\* first or last character.
Suffix(path) ==
    LET name == Name(path)
        i == RFind(name, ".")
    IN  IF 1 < i /\ i < Len(name) THEN SubSeq(name, i, Len(name)) ELSE <<>>

None == [k |-> "none"]
Path(s) == [k |-> "str", s |-> s]

\* The arguments evaluate is called with.
ProgramPaths ==
    { None, Path(<<>>), Path(<<" ">>), Path(A_C), Path(<<" ">> \o A_C \o <<"\n">>),
      Path(B_TXT), Path(DOT_C), Path(M_C), Path(D_C), Path(L_C), Path(POLICY_DEST),
      Path(<<"~">>), Path(<<"~", "q", ".", "c">>) }

\* ------------------------------------------------------------------- state
VARIABLES
    pc,               \* where evaluate stands
    program_path,     \* evaluate's argument
    source_path,      \* _prepare_policy: the expanded candidate path
    success,          \* _prepare_policy's first result
    prep_artifacts,   \* _prepare_policy's artifacts
    run_artifacts,    \* _run_filesearch_script's artifacts
    artifacts,        \* evaluate's artifacts
    metrics,          \* evaluate's metrics
    result,           \* what evaluate returned
    exc,              \* the exception that left evaluate, "" if none
    policyDest,       \* content of POLICY_DEST on disk
    resultsFile,      \* what RESULTS_DIR holds under this second's filename
    now,              \* the wall clock, in seconds
    results_filename, \* evaluate's results_filename
    proc,             \* the benchmark subprocess
    pipes,            \* lines written by the subprocess and not yet read
    lines,            \* stdout_lines and stderr_lines
    threads,          \* the two draining threads
    returncode,       \* process.wait()'s result
    hist              \* what this evaluation has done so far

vars ==
    << pc, program_path, source_path, success, prep_artifacts, run_artifacts, artifacts,
       metrics, result, exc, policyDest, resultsFile, now, results_filename, proc, pipes,
       lines, threads, returncode, hist >>

NoArtifacts == [k \in {} |-> ""]
NoResult == [k |-> "none"]
EvaluationResult(m, a) == [k |-> "result", metrics |-> m, artifacts |-> a]
\* dict.update: the entries of new replace those of old.
Update(old, new) == new @@ old
Set(d, key, value) == (key :> value) @@ d

Streams == {"stdout", "stderr"}
NoProcess == [state |-> "none", code |-> 0, emitted |-> [s \in Streams |-> 0]]
NoHist ==
    [ destAtCall |-> "absent", copyCalled |-> FALSE, buildReached |-> FALSE,
      validated |-> FALSE, buildInvoked |-> FALSE, destAtBuild |-> "absent", runReached |-> FALSE,
      popenCalled |-> FALSE, parseReached |-> FALSE ]

\* The locals of one evaluation, as a call starts.
Fresh(p) ==
    /\ program_path' = p
    /\ source_path' = <<>>
    /\ success' = FALSE
    /\ prep_artifacts' = NoArtifacts
    /\ run_artifacts' = NoArtifacts
    /\ artifacts' = NoArtifacts
    /\ metrics' = InitialMetrics
    /\ result' = NoResult
    /\ exc' = ""
    /\ results_filename' = ""
    /\ proc' = NoProcess
    /\ pipes' = [s \in Streams |-> <<>>]
    /\ lines' = [s \in Streams |-> <<>>]
    /\ threads' = [s \in Streams |-> "new"]
    /\ returncode' = 0

Init ==
    /\ pc = "idle"
    /\ program_path = None
    /\ source_path = <<>>
    /\ success = FALSE
    /\ prep_artifacts = NoArtifacts
    /\ run_artifacts = NoArtifacts
    /\ artifacts = NoArtifacts
    /\ metrics = InitialMetrics
    /\ result = NoResult
    /\ exc = ""
    /\ policyDest \in {"absent", "P"}
    /\ resultsFile = Missing
    /\ now = 0
    /\ results_filename = ""
    /\ proc = NoProcess
    /\ pipes = [s \in Streams |-> <<>>]
    /\ lines = [s \in Streams |-> <<>>]
    /\ threads = [s \in Streams |-> "new"]
    /\ returncode = 0
    /\ hist = NoHist

\* An exception leaves evaluate.
Raise(e) ==
    /\ pc' = "raised"
    /\ exc' = e

\* evaluate is called (lines 171-180).  The clock may have moved on since the
\* last call; a new second means a filename under which nothing exists yet.
Evaluate ==
    /\ pc \in {"idle", "returned", "raised"}
    /\ \E p \in ProgramPaths : Fresh(p)
    /\ \E tick \in BOOLEAN :
          IF tick
          THEN now < MaxClock /\ now' = now + 1 /\ resultsFile' = Missing
          ELSE UNCHANGED <<now, resultsFile>>
    /\ pc' = "prepare"
    /\ hist' = [NoHist EXCEPT !.destAtCall = policyDest]
    /\ UNCHANGED policyDest

\* ---------------------------------------------------------- _prepare_policy
\* _prepare_policy returns (ok, a) to evaluate.
PrepReturn(ok, a) ==
    /\ success' = ok
    /\ prep_artifacts' = a
    /\ pc' = "prepared"

PrepUnchanged ==
    UNCHANGED << program_path, run_artifacts, artifacts, metrics, result, resultsFile, now,
                 results_filename, proc, pipes, lines, threads, returncode >>

\* Lines 110-129: no path, a blank path, a path that is no file, a wrong suffix.
PrepValidate ==
    /\ pc = "prepare"
    /\ IF program_path = None
       THEN PrepReturn(TRUE, NoArtifacts) /\ UNCHANGED <<source_path, exc>>
       ELSE LET candidate == Strip(program_path.s)
                expanded == ExpandUser(candidate)
                path == expanded.path
            IN  IF candidate = <<>>
                THEN PrepReturn(TRUE, NoArtifacts) /\ UNCHANGED <<source_path, exc>>
                ELSE IF expanded.exc # ""
                THEN Raise(expanded.exc) /\ UNCHANGED <<source_path, success, prep_artifacts>>
                ELSE IF ~Exists(path, policyDest) \/ ~IsFile(path, policyDest)
                THEN /\ PrepReturn(FALSE, Set(NoArtifacts, "program_error",
                            "Provided program_path does not exist or is not a file: "
                                \o StrOf(path)))
                     /\ source_path' = path
                     /\ UNCHANGED exc
                ELSE IF Suffix(path) # <<".", "c">>
                THEN /\ PrepReturn(FALSE, Set(NoArtifacts, "program_error",
                            "Expected a BPF C source (.c), got: " \o StrOf(path)))
                     /\ source_path' = path
                     /\ UNCHANGED exc
                ELSE /\ source_path' = path
                     /\ pc' = "copy"
                     /\ UNCHANGED <<success, prep_artifacts, exc>>
    /\ hist' = [hist EXCEPT !.validated = (pc' = "copy")]
    /\ UNCHANGED policyDest
    /\ PrepUnchanged

\* How shutil.copyfile may end: done; the destination cannot be opened; the
\* disk fills up after the destination was truncated.
CopyOutcomes == {"ok", "[Errno 13] Permission denied", "[Errno 28] No space left on device"}

\* PrepCopy without the comparison of line 133: the copy is always made.
PrepCopyAlways ==
    /\ pc = "copy"
    /\ LET source_real == Resolve(source_path)
       IN  \E outcome \in CopyOutcomes :
              /\ hist' = [hist EXCEPT !.copyCalled = TRUE]
              /\ IF outcome = "ok"
                 THEN /\ policyDest' = NodeAt(source_real, policyDest).content
                      /\ prep_artifacts' =
                            Set(prep_artifacts, "copied_policy_from", StrOf(source_real))
                      /\ pc' = "build"
                      /\ UNCHANGED success
                 ELSE /\ policyDest' =
                            IF outcome = "[Errno 13] Permission denied"
                            THEN policyDest ELSE "partial"
                      /\ PrepReturn(FALSE, Set(prep_artifacts, "program_error",
                            "Failed to copy BPF program to " \o POLICY_DEST_STR \o ": "
                                \o outcome))
    /\ UNCHANGED <<source_path, exc>>
    /\ PrepUnchanged

\* Lines 131-143: copy the candidate over the destination unless it is the
\* destination.
PrepCopy ==
    /\ pc = "copy"
    /\ LET source_real == Resolve(source_path)
           dest_real == Resolve(POLICY_DEST)
       IN  IF source_real # dest_real
           THEN \E outcome \in CopyOutcomes :
                  /\ hist' = [hist EXCEPT !.copyCalled = TRUE]
                  /\ IF outcome = "ok"
                     THEN /\ policyDest' = NodeAt(source_real, policyDest).content
                          /\ prep_artifacts' =
                                Set(prep_artifacts, "copied_policy_from", StrOf(source_real))
                          /\ pc' = "build"
                          /\ UNCHANGED success
                     ELSE /\ policyDest' =
                                IF outcome = "[Errno 13] Permission denied"
                                THEN policyDest ELSE "partial"
                          /\ PrepReturn(FALSE, Set(prep_artifacts, "program_error",
                                "Failed to copy BPF program to " \o POLICY_DEST_STR \o ": "
                                    \o outcome))
           ELSE /\ pc' = "build"
                /\ UNCHANGED <<policyDest, prep_artifacts, success, hist>>
    /\ UNCHANGED <<source_path, exc>>
    /\ PrepUnchanged

\* Lines 145-149: the build script is not there.
PrepBuildScriptMissing ==
    /\ pc = "build"
    /\ hist' = [hist EXCEPT !.buildReached = TRUE]
    /\ PrepReturn(FALSE, Set(prep_artifacts, "build_error",
            "build_policies.sh not found at " \o BUILD_SCRIPT_STR))
    /\ UNCHANGED <<source_path, exc, policyDest>>
    /\ PrepUnchanged

\* Line 152: subprocess.run cannot start bash; the exception is not caught.
PrepBuildSpawnFails ==
    /\ pc = "build"
    /\ hist' = [hist EXCEPT !.buildReached = TRUE, !.buildInvoked = TRUE,
                            !.destAtBuild = policyDest]
    /\ Raise("FileNotFoundError")
    /\ UNCHANGED <<source_path, success, prep_artifacts, policyDest>>
    /\ PrepUnchanged

\* How the build may end: its exit code and what it printed.
BuildOutcomes ==
    { [returncode |-> 0, stdout |-> "built\n", stderr |-> ""],
      [returncode |-> 2, stdout |-> "", stderr |-> "clang: error\n"] }

\* Lines 151-168: the build runs to its end.
PrepBuildRuns ==
    /\ pc = "build"
    /\ hist' = [hist EXCEPT !.buildReached = TRUE, !.buildInvoked = TRUE,
                            !.destAtBuild = policyDest]
    /\ \E build_proc \in BuildOutcomes :
          LET a == Set(Set(Set(prep_artifacts, "build_stdout", build_proc.stdout),
                               "build_stderr", build_proc.stderr),
                               "build_exit_code", ToString(build_proc.returncode))
          IN  IF build_proc.returncode # 0
              THEN PrepReturn(FALSE, Set(a, "build_error",
                        "build_policies.sh failed with exit code "
                            \o ToString(build_proc.returncode)))
              ELSE PrepReturn(TRUE, a)
    /\ UNCHANGED <<source_path, exc, policyDest>>
    /\ PrepUnchanged

\* ---------------------------------------------------------------- evaluate
EvalUnchanged ==
    UNCHANGED << program_path, source_path, success, prep_artifacts, policyDest, now >>

\* AfterPrepare without the early return of lines 182-184.
AfterPrepareIgnoresFailure ==
    /\ pc = "prepared"
    /\ artifacts' = Update(artifacts, prep_artifacts)
    /\ pc' = "mkdir"
    /\ UNCHANGED << metrics, result, run_artifacts, exc, resultsFile, results_filename, proc,
                    pipes, lines, threads, returncode, hist >>
    /\ EvalUnchanged

\* Lines 180-184: merge the staging artifacts; a failed staging ends here.
AfterPrepare ==
    /\ pc = "prepared"
    /\ artifacts' = Update(artifacts, prep_artifacts)
    /\ IF ~success
       THEN /\ metrics' = [metrics EXCEPT !.combined_score = NegInf]
            /\ result' = EvaluationResult(metrics', artifacts')
            /\ pc' = "returned"
       ELSE /\ pc' = "mkdir"
            /\ UNCHANGED <<metrics, result>>
    /\ UNCHANGED << run_artifacts, exc, resultsFile, results_filename, proc, pipes, lines,
                    threads, returncode, hist >>
    /\ EvalUnchanged

\* strftime("%Y%m%d_%H%M%S"): one text per second of the clock.
Timestamp(t) == "20260101_00000" \o ToString(t)

\* Lines 186-190: the results directory cannot be made (a file is in the way,
\* no permission); the exception is not caught.
MakeResultsDirFails ==
    /\ pc = "mkdir"
    /\ Raise("OSError")
    /\ UNCHANGED << run_artifacts, artifacts, metrics, result, resultsFile, results_filename,
                    proc, pipes, lines, threads, returncode, hist >>
    /\ EvalUnchanged

\* Lines 186-190: the results directory is there; the filename is chosen.
MakeResultsDir ==
    /\ pc = "mkdir"
    /\ results_filename' = "filesearch_results_" \o Timestamp(now) \o ".json"
    /\ pc' = "run"
    /\ UNCHANGED << run_artifacts, artifacts, metrics, result, exc, resultsFile, proc, pipes,
                    lines, threads, returncode, hist >>
    /\ EvalUnchanged

\* --------------------------------------------------- _run_filesearch_script
RunUnchanged ==
    UNCHANGED << artifacts, metrics, result, results_filename >>

\* _run_filesearch_script returns a to evaluate.
RunReturn(a) ==
    /\ run_artifacts' = a
    /\ pc' = "merge"

\* RunScriptMissing recording its message under the staging stage's key.
RunScriptMissingReusesKey ==
    /\ pc = "run"
    /\ hist' = [hist EXCEPT !.runReached = TRUE]
    /\ RunReturn(Set(NoArtifacts, "program_error", "run.sh not found at " \o RUN_SCRIPT_STR))
    /\ UNCHANGED <<exc, resultsFile, proc, pipes, lines, threads, returncode>>
    /\ RunUnchanged
    /\ EvalUnchanged

\* Lines 35-42: run.sh is not there.
RunScriptMissing ==
    /\ pc = "run"
    /\ hist' = [hist EXCEPT !.runReached = TRUE]
    /\ RunReturn(Set(NoArtifacts, "run_error", "run.sh not found at " \o RUN_SCRIPT_STR))
    /\ UNCHANGED <<exc, resultsFile, proc, pipes, lines, threads, returncode>>
    /\ RunUnchanged
    /\ EvalUnchanged

\* Lines 44-57: subprocess.Popen raises.
RunPopenFails ==
    /\ pc = "run"
    /\ hist' = [hist EXCEPT !.runReached = TRUE]
    /\ RunReturn(Set(NoArtifacts, "run_error",
            "Failed to execute run.sh: [Errno 2] No such file or directory: 'bash'"))
    /\ UNCHANGED <<exc, resultsFile, proc, pipes, lines, threads, returncode>>
    /\ RunUnchanged
    /\ EvalUnchanged

\* Lines 44-60: the subprocess is started.
RunPopen ==
    /\ pc = "run"
    /\ hist' = [hist EXCEPT !.runReached = TRUE, !.popenCalled = TRUE]
    /\ proc' = [NoProcess EXCEPT !.state = "running"]
    /\ pc' = "start_stdout"
    /\ UNCHANGED <<run_artifacts, exc, resultsFile, pipes, lines, threads, returncode>>
    /\ RunUnchanged
    /\ EvalUnchanged

\* Lines 69-74: the two threads are started, stdout's first.
StartThread(s, next) ==
    /\ pc = "start_" \o s
    /\ threads' = [threads EXCEPT ![s] = "running"]
    /\ pc' = next
    /\ UNCHANGED <<run_artifacts, exc, resultsFile, proc, pipes, lines, returncode, hist>>
    /\ RunUnchanged
    /\ EvalUnchanged

StartStdoutThread == StartThread("stdout", "start_stderr")
StartStderrThread == StartThread("stderr", "wait")

\* The k-th line the benchmark writes to a stream.
Line(s, k) == s \o " line " \o ToString(k) \o "\n"

\* The benchmark writes a line to one of its streams.
ProcWrites ==
    /\ proc.state = "running"
    /\ \E s \in Streams :
          /\ proc.emitted[s] < MaxLines
          /\ proc' = [proc EXCEPT !.emitted[s] = @ + 1]
          /\ pipes' = [pipes EXCEPT ![s] = Append(@, Line(s, proc.emitted[s] + 1))]
    /\ UNCHANGED <<pc, run_artifacts, exc, resultsFile, lines, threads, returncode, hist>>
    /\ RunUnchanged
    /\ EvalUnchanged

\* Exit codes of the benchmark.
ExitCodes == {0, 1}

\* The benchmark exits; it has left a results file under the name it was
\* given, or has not touched the results directory.
ProcExits ==
    /\ proc.state = "running"
    /\ \E code \in ExitCodes : proc' = [proc EXCEPT !.state = "exited", !.code = code]
    /\ \E file \in BenchFiles \cup {resultsFile} : resultsFile' = file
    /\ UNCHANGED <<pc, run_artifacts, exc, pipes, lines, threads, returncode, hist>>
    /\ RunUnchanged
    /\ EvalUnchanged

\* Lines 62-67, _stream: a thread takes the next line of its pipe, or finds
\* the pipe at its end and closes it.
Stream ==
    /\ \E s \in Streams :
          /\ threads[s] = "running"
          /\ IF pipes[s] # <<>>
             THEN /\ lines' = [lines EXCEPT ![s] = Append(@, Head(pipes[s]))]
                  /\ pipes' = [pipes EXCEPT ![s] = Tail(@)]
                  /\ UNCHANGED threads
             ELSE /\ proc.state = "exited"
                  /\ threads' = [threads EXCEPT ![s] = "done"]
                  /\ UNCHANGED <<lines, pipes>>
    /\ UNCHANGED <<pc, run_artifacts, exc, resultsFile, proc, returncode, hist>>
    /\ RunUnchanged
    /\ EvalUnchanged

\* Line 75: process.wait().
Wait ==
    /\ pc = "wait"
    /\ proc.state = "exited"
    /\ returncode' = proc.code
    /\ pc' = "join"
    /\ UNCHANGED <<run_artifacts, exc, resultsFile, proc, pipes, lines, threads, hist>>
    /\ RunUnchanged
    /\ EvalUnchanged

RECURSIVE Joined(_)
\* "".join(strings)
Joined(strings) == IF strings = <<>> THEN "" ELSE Head(strings) \o Joined(Tail(strings))

\* Join treating a non-zero exit code as a failed run.
JoinGated ==
    /\ pc = "join"
    /\ \A s \in Streams : threads[s] = "done"
    /\ IF returncode # 0
       THEN RunReturn(Set(NoArtifacts, "run_error",
                "run.sh failed with exit code " \o ToString(returncode)))
       ELSE RunReturn(Set(Set(Set(Set(NoArtifacts,
                "run_stdout", Joined(lines["stdout"])),
                "run_stderr", Joined(lines["stderr"])),
                "run_exit_code", ToString(returncode)),
                "results_filename", results_filename))
    /\ UNCHANGED <<exc, resultsFile, proc, pipes, lines, threads, returncode, hist>>
    /\ RunUnchanged
    /\ EvalUnchanged

\* Lines 76-85: both threads are joined and the diagnostics recorded.
Join ==
    /\ pc = "join"
    /\ \A s \in Streams : threads[s] = "done"
    /\ RunReturn(Set(Set(Set(Set(NoArtifacts,
            "run_stdout", Joined(lines["stdout"])),
            "run_stderr", Joined(lines["stderr"])),
            "run_exit_code", ToString(returncode)),
            "results_filename", results_filename))
    /\ UNCHANGED <<exc, resultsFile, proc, pipes, lines, threads, returncode, hist>>
    /\ RunUnchanged
    /\ EvalUnchanged

\* ------------------------------------------------------ evaluate, continued
\* Lines 192-193: the run artifacts are merged.
MergeRun ==
    /\ pc = "merge"
    /\ artifacts' = Update(artifacts, run_artifacts)
    /\ pc' = "parse"
    /\ UNCHANGED << run_artifacts, metrics, result, exc, resultsFile, results_filename, proc,
                    pipes, lines, threads, returncode, hist >>
    /\ EvalUnchanged

\* Lines 195-208: the results file is loaded and reduced to the metrics.
Parse ==
    /\ pc = "parse"
    /\ hist' = [hist EXCEPT !.parseReached = TRUE]
    /\ LET loaded == LoadCacheExtRuntimes(resultsFile)
       IN  IF loaded.exc # ""
           THEN Raise(loaded.exc) /\ UNCHANGED metrics
           ELSE /\ metrics' = Aggregate(loaded.runtimes)
                /\ pc' = "return"
                /\ UNCHANGED exc
    /\ UNCHANGED << run_artifacts, artifacts, result, resultsFile, results_filename, proc,
                    pipes, lines, threads, returncode >>
    /\ EvalUnchanged

\* Line 210.
Return ==
    /\ pc = "return"
    /\ result' = EvaluationResult(metrics, artifacts)
    /\ pc' = "returned"
    /\ UNCHANGED << run_artifacts, artifacts, metrics, exc, resultsFile, results_filename,
                    proc, pipes, lines, threads, returncode, hist >>
    /\ EvalUnchanged

\* ---------------------------------------------------------- specifications
Next ==
    \/ Evaluate
    \/ PrepValidate
    \/ PrepCopy
    \/ PrepBuildScriptMissing
    \/ PrepBuildSpawnFails
    \/ PrepBuildRuns
    \/ AfterPrepare
    \/ MakeResultsDirFails
    \/ MakeResultsDir
    \/ RunScriptMissing
    \/ RunPopenFails
    \/ RunPopen
    \/ StartStdoutThread
    \/ StartStderrThread
    \/ ProcWrites
    \/ ProcExits
    \/ Stream
    \/ Wait
    \/ Join
    \/ MergeRun
    \/ Parse
    \/ Return

\* Evaluations one after another, each on what the last left on disk.
Spec == Init /\ [][Next]_vars

\* The aggregation on its own: evaluate stands before line 195 with a results
\* file of any shape on disk, after a benchmark that ran or did not.
InitAgg ==
    /\ pc = "parse"
    /\ program_path = None
    /\ source_path = <<>>
    /\ success = TRUE
    /\ prep_artifacts = NoArtifacts
    /\ run_artifacts = NoArtifacts
    /\ artifacts = NoArtifacts
    /\ metrics = InitialMetrics
    /\ result = NoResult
    /\ exc = ""
    /\ policyDest = "P"
    /\ resultsFile \in Files
    /\ now = 0
    /\ results_filename = "filesearch_results_" \o Timestamp(0) \o ".json"
    /\ proc = NoProcess
    /\ pipes = [s \in Streams |-> <<>>]
    /\ lines = [s \in Streams |-> <<>>]
    /\ threads = [s \in Streams |-> "new"]
    /\ returncode = 0
    /\ hist = [NoHist EXCEPT !.destAtCall = "P", !.runReached = TRUE]

NextAgg ==
    \/ Parse
    \/ Return

SpecAgg == InitAgg /\ [][NextAgg]_vars

\* ------------------------------------------------ what the claims speak of
RunKeys == {"run_error", "run_stdout", "run_stderr", "run_exit_code", "results_filename"}
StagingKeys ==
    {"program_error", "copied_policy_from", "build_stdout", "build_stderr", "build_exit_code"}
\* The ten diagnostics the specification lists.
ListedKeys == RunKeys \cup StagingKeys

\* The records of a results file, none if it holds no list.
Items(file) == IF file.k = "json" /\ file.v.t = "list" THEN file.v.items ELSE <<>>

\* A record of this system's runs: config.cgroup_name is "cache_ext_test".
Qualifies(e) ==
    /\ e.t = "obj"
    /\ "config" \in DOMAIN e.f
    /\ e.f["config"].t = "obj"
    /\ "cgroup_name" \in DOMAIN e.f["config"].f
    /\ e.f["config"].f["cgroup_name"].t = "str"
    /\ e.f["config"].f["cgroup_name"].s = CGROUP_NAME

HasRuntime(e) ==
    /\ "results" \in DOMAIN e.f
    /\ e.f["results"].t = "obj"
    /\ "runtime_sec" \in DOMAIN e.f["results"].f
Runtime(e) == e.f["results"].f["runtime_sec"]

\* A string that spells a number, blanks around it allowed.
SpellsNumber(s) ==
    \E i \in 1..Len(s) : \E j \in i..Len(s) :
        /\ \A k \in 1..Len(s) : IF i <= k /\ k <= j THEN s[k] \in Digits ELSE s[k] \in Whitespace

\* A numeric runtime: a number, or a string that spells one.
IsNumeric(v) == v.t \in {"num", "bigint"} \/ (v.t = "str" /\ SpellsNumber(v.s))
\* What float() turns into a number: a numeric runtime or a boolean.
IsCoercible(v) == IsNumeric(v) \/ v.t = "bool"

ValueOf(v) ==
    CASE v.t = "num" -> v.n
      [] v.t = "bool" -> IF v.b THEN 1 ELSE 0
      [] v.t = "str" -> DecVal(SelectSeq(v.s, LAMBDA c : c \in Digits))

\* The runtimes of the qualifying records whose runtime satisfies Counts.
Measured(file, Counts(_)) ==
    LET kept == SelectSeq(Items(file),
                          LAMBDA e : Qualifies(e) /\ HasRuntime(e) /\ Counts(Runtime(e)))
    IN  [i \in 1..Len(kept) |-> ValueOf(Runtime(kept[i]))]

\* Mean, count and negated mean of a non-empty list of runtimes.
MetricsOf(rs) ==
    [cache_ext_avg_runtime_sec |-> Fin(Sum(rs), Len(rs)),
     cache_ext_run_count |-> Fin(Len(rs), 1),
     combined_score |-> Fin(-Sum(rs), Len(rs))]
\* The "no usable signal" metrics.
NoSignal ==
    [cache_ext_avg_runtime_sec |-> Zero, cache_ext_run_count |-> Zero,
     combined_score |-> NegInf]
ExpectedMetrics(file) ==
    IF Measured(file, IsCoercible) = <<>> THEN NoSignal
    ELSE MetricsOf(Measured(file, IsCoercible))

Returned == pc = "returned"
\* _prepare_policy has returned failure to evaluate.
StagingFailed == ~success /\ pc \in {"prepared", "returned"}

C2_NoExceptionCrosses == pc # "raised"

RunScriptWasMissing ==
    /\ "run_error" \in DOMAIN run_artifacts
    /\ run_artifacts["run_error"] = "run.sh not found at " \o RUN_SCRIPT_STR

\* C5: when staging succeeds and run.sh is missing, evaluate records
\* run_error, starts no subprocess, goes on to aggregation, and returns
\* combined_score = -inf.
C5_MissingRunScriptScoresNegInf ==
    (Returned /\ success /\ RunScriptWasMissing) =>
        /\ ~hist.popenCalled
        /\ hist.parseReached
        /\ "run_error" \in DOMAIN result.artifacts
        /\ result.metrics.combined_score = NegInf

\* ----------------------------------------------------------------- C6
\* The lists C6 speaks of: every element a record, its config an object if
\* present, and no runtime beyond the range of a float.
ListOfRecords(file) ==
    /\ file.k = "json"
    /\ file.v.t = "list"
    /\ \A i \in 1..Len(file.v.items) :
          LET e == file.v.items[i]
          IN  /\ e.t = "obj"
              /\ "config" \in DOMAIN e.f => e.f["config"].t = "obj"
              /\ (Qualifies(e) /\ HasRuntime(e)) => Runtime(e).t # "bigint"

\* C6: aggregation never aborts on a list of records: a qualifying record
\* whose runtime is missing, non-numeric or unparsable is dropped, and the
\* others yield the average and the count as if it were absent.
C6_AnomaliesDroppedPerRecord ==
    ListOfRecords(resultsFile) =>
        /\ pc # "raised"
        /\ Returned => result.metrics = ExpectedMetrics(resultsFile)

\* ----------------------------------------------------------------- C7
\* C7 as stated: every key of a returned result's diagnostics is one of the
\* ten listed ones.
C7_OnlyListedKeys == Returned => DOMAIN result.artifacts \subseteq ListedKeys

\* C7 as amended: every key of a returned result's diagnostics is one of the
\* ten listed ones or build_error; the staging stage writes only program_error,
\* copied_policy_from, build_stdout, build_stderr, build_exit_code and
\* build_error, the run stage only the five run keys, so the two never share a
\* key and the merge keeps every diagnostic of both.
C7_KeysListedOrBuildError ==
    /\ DOMAIN prep_artifacts \subseteq StagingKeys \cup {"build_error"}
    /\ DOMAIN run_artifacts \subseteq RunKeys
    /\ DOMAIN prep_artifacts \cap DOMAIN run_artifacts = {}
    /\ Returned =>
          /\ DOMAIN result.artifacts \subseteq ListedKeys \cup {"build_error"}
          /\ DOMAIN result.artifacts = DOMAIN prep_artifacts \cup DOMAIN run_artifacts
          /\ \A k \in DOMAIN prep_artifacts : result.artifacts[k] = prep_artifacts[k]
          /\ \A k \in DOMAIN run_artifacts : result.artifacts[k] = run_artifacts[k]

\* A result that merges the diagnostics of a copy, a build and a run.
C7_Witness ==
    /\ Returned
    /\ {"copied_policy_from", "build_exit_code", "run_stdout", "results_filename"}
          \subseteq DOMAIN result.artifacts

\* ----------------------------------------------------------------- C8
\* Blank: nothing but whitespace.
IsBlank(s) == \A i \in 1..Len(s) : s[i] \in Whitespace
Supplied == program_path # None /\ ~IsBlank(program_path.s)

RECURSIVE Unpadded(_)
\* A text without the whitespace around it.
Unpadded(s) ==
    IF s = <<>> THEN s
    ELSE IF s[1] \in Whitespace THEN Unpadded(SubSeq(s, 2, Len(s)))
    ELSE IF s[Len(s)] \in Whitespace THEN Unpadded(SubSeq(s, 1, Len(s) - 1))
    ELSE s

\* The path a supplied candidate names: "~" stands for the home directory.
NamedPath ==
    LET s == Unpadded(program_path.s)
    IN  IF s = <<"~">> THEN HOME ELSE s
EndsInDotC(path) ==
    Len(path) >= 2 /\ path[Len(path) - 1] = "." /\ path[Len(path)] = "c"
\* _prepare_policy is over, by a return or by an exception.
StagingOver == pc \notin {"idle", "prepare", "copy", "build"}

\* C8: the build is invoked only for a non-blank path that names an existing
\* regular file ending in .c, after a copy that succeeded or was not needed;
\* an absent or blank path succeeds with no copy, no build, no diagnostics; a
\* nonexistent path or a file not ending in .c fails with program_error, and
\* neither copy nor build is attempted.
C8_BuildOnlyForStagedCandidate ==
    /\ hist.buildInvoked =>
          /\ Supplied
          /\ IsFile(NamedPath, hist.destAtCall)
          /\ EndsInDotC(NamedPath)
          /\ IF hist.copyCalled
             THEN "copied_policy_from" \in DOMAIN prep_artifacts
             ELSE Resolve(NamedPath) = POLICY_DEST
    /\ (StagingOver /\ ~Supplied) =>
          /\ success
          /\ prep_artifacts = NoArtifacts
          /\ ~hist.copyCalled
          /\ ~hist.buildReached
          /\ policyDest = hist.destAtCall
    /\ (StagingOver /\ Supplied
          /\ (\/ ~Exists(NamedPath, hist.destAtCall)
              \/ IsFile(NamedPath, hist.destAtCall) /\ ~EndsInDotC(NamedPath))) =>
          /\ ~success
          /\ "program_error" \in DOMAIN prep_artifacts
          /\ ~hist.copyCalled
          /\ ~hist.buildReached
          /\ policyDest = hist.destAtCall

\* ----------------------------------------------------------------- C9
\* The candidate resolves to the destination itself.
SameFile == Resolve(source_path) = Resolve(POLICY_DEST)

\* C9: a candidate that resolves to the destination is not copied (the
\* destination keeps its content, no copied_policy_from) and the build step
\* still runs; any other candidate's content is what the destination holds
\* when the build step starts.
C9_CopyIdempotence ==
    (hist.validated /\ pc # "copy") =>
        IF SameFile
        THEN /\ ~hist.copyCalled
             /\ "copied_policy_from" \notin DOMAIN prep_artifacts
             /\ policyDest = hist.destAtCall
             /\ pc = "build" \/ hist.buildReached
             /\ hist.buildInvoked => hist.destAtBuild = hist.destAtCall
        ELSE /\ hist.copyCalled
             /\ (pc = "build" \/ hist.buildReached) =>
                   /\ policyDest = NodeAt(Resolve(source_path), "absent").content
                   /\ prep_artifacts["copied_policy_from"] = StrOf(Resolve(source_path))
             /\ hist.buildInvoked =>
                   hist.destAtBuild = NodeAt(Resolve(source_path), "absent").content

\* The build has run on a candidate given as a symbolic link to the destination.
C9_Witness ==
    /\ program_path = Path(L_C)
    /\ hist.validated
    /\ SameFile
    /\ hist.buildInvoked
    /\ "build_exit_code" \in DOMAIN prep_artifacts
    /\ policyDest = "P"

\* ---------------------------------------------------------------- C10
RECURSIVE Written(_, _)
\* The first n lines the benchmark wrote to a stream, as one text.
Written(s, n) == IF n = 0 THEN "" ELSE Written(s, n - 1) \o Line(s, n)

CodeText(code) == CASE code = 0 -> "0" [] code = 1 -> "1"

\* _run_filesearch_script has returned from a started benchmark.
RunOver == hist.popenCalled /\ pc \in {"merge", "parse", "return", "returned", "raised"}

\* C10: once a started benchmark has exited and both threads are joined,
\* run_stdout, run_stderr, run_exit_code and results_filename are recorded
\* whatever the exit code, and the metrics are those of the results file
\* alone: the exit code has no part in them.
C10_ExitCodeNeverGates ==
    /\ RunOver =>
          /\ proc.state = "exited"
          /\ \A s \in Streams : threads[s] = "done" /\ pipes[s] = <<>>
          /\ DOMAIN run_artifacts =
                {"run_stdout", "run_stderr", "run_exit_code", "results_filename"}
          /\ run_artifacts["run_stdout"] = Written("stdout", proc.emitted["stdout"])
          /\ run_artifacts["run_stderr"] = Written("stderr", proc.emitted["stderr"])
          /\ run_artifacts["run_exit_code"] = CodeText(proc.code)
          /\ run_artifacts["results_filename"] = results_filename
    /\ (hist.popenCalled /\ Returned) =>
          /\ result.metrics = ExpectedMetrics(resultsFile)
          /\ \A k \in DOMAIN run_artifacts : result.artifacts[k] = run_artifacts[k]

\* A benchmark that exited with 1 and left the example file is scored.
C10_Witness ==
    /\ Returned
    /\ hist.popenCalled
    /\ proc.code = 1
    /\ proc.emitted["stdout"] = MaxLines
    /\ resultsFile = ExampleFile
    /\ result.metrics.combined_score = Fin(-3, 1)
    /\ result.artifacts["run_exit_code"] = "1"
====
